---- MODULE Spec2Model ----
(***************************************************************************)
(* yuki-db: the HTTP handlers of the Drizzle and Prisma adapters           *)
(* (packages/yuki-db/src/adapters) over one table, "posts".                *)
(*                                                                         *)
(* A handler run is one atomic step: it reads the request, validates it,   *)
(* issues at most one operation to the store and builds the response.      *)
(* The state keeps the table, the table as it was before the last run, the *)
(* last request, the response to it and the operations it issued.          *)
(*                                                                         *)
(* The client helpers (packages/yuki-db/src/client/helpers.ts) build the   *)
(* URL of a query and decode the rows of the response; a client run is the *)
(* helper's step followed, in the same step, by the handler it calls.      *)
(***************************************************************************)
EXTENDS Integers, Sequences, FiniteSets, TLC

VARIABLES
    store,    \* the rows of table "posts", in insertion order
    nextId,   \* the id the store gives to the next inserted row
    pre,      \* store before the last handler run
    req,      \* the last request
    resp,     \* the response to it (status 0: the handler threw, no response)
    ops,      \* the operations the last run sent to the store, in order
    raised,   \* whether the store raised a failure during the last run
    client    \* what the client helper built or decoded for the last run

vars == <<store, nextId, pre, req, resp, ops, raised, client>>

(***************************************************************************)
(* Bounds of the model.                                                    *)
(***************************************************************************)
MaxVal == 2     \* cell values are the codes 0..MaxVal
MaxId == 4      \* the store generates ids up to MaxId, then inserts stop

Val == 0..MaxVal

(***************************************************************************)
(* The schema: one table and its columns (packages/db/src/schema.ts).      *)
(***************************************************************************)
Tables == {"posts"}
Columns == {"id", "title", "content"}

\* schema[table][key]: the column object, or undefined (NoColumn)
NoColumn == "<undefined>"
Column(table, key) == IF table \in Tables /\ key \in Columns THEN key ELSE NoColumn

\* url.searchParams.get(name) when the parameter is absent
Null == "<null>"
\* !x for a string-or-null parameter: null and the empty string are falsy
Falsy(p) == p = Null \/ p = ""

(***************************************************************************)
(* JSON values.  An object is its Object.entries list of <<key, value>>;   *)
(* an array likewise, with keys "0", "1", ... as Object.entries gives.     *)
(* Scalars are value codes (num) or strings (str).                         *)
(***************************************************************************)
JNull == [t |-> "null", e |-> <<>>, v |-> 0, s |-> ""]
JNum(n) == [t |-> "num", e |-> <<>>, v |-> n, s |-> ""]
JStr(x) == [t |-> "str", e |-> <<>>, v |-> 0, s |-> x]
JObj(entries) == [t |-> "obj", e |-> entries, v |-> 0, s |-> ""]
JArr(entries) == [t |-> "arr", e |-> entries, v |-> 0, s |-> ""]

\* a query-string parameter carrying JSON text:
\*   absent, empty (""), malformed text, or text that JSON.parse accepts
PAbsent == [k |-> "absent", j |-> JNull]
PEmpty == [k |-> "empty", j |-> JNull]
PMalformed == [k |-> "malformed", j |-> JNull]
PJson(j) == [k |-> "json", j |-> j]

\* !param for such a parameter
FalsyParam(p) == p.k \in {"absent", "empty"}

\* Object.entries(x); on null it throws a TypeError (callers test for it).
\* Strings are never passed here: the requests carry them only as values.
Entries(j) ==
    CASE j.t \in {"obj", "arr"} -> j.e
      [] j.t = "num" -> <<>>

\* a thrown Error, as the words of its message; <<>> is "nothing thrown"
NoError == <<>>
TypeError == <<"TypeError">>
SyntaxError == <<"SyntaxError">>

(***************************************************************************)
(* drizzle-orm's SQL fragments, as the handler builds them.  A fragment is *)
(* a comparison of a column with a bound parameter, a negation, or a       *)
(* conjunction or disjunction; Undefined is JavaScript's undefined.        *)
(***************************************************************************)
Undefined == [op |-> "undefined", col |-> "", val |-> JNull, args |-> <<>>]
Cmp(op, col, val) == [op |-> op, col |-> col, val |-> val, args |-> <<>>]
SqlNot(c) == [op |-> "not", col |-> "", val |-> JNull, args |-> <<c>>]

\* the arguments that are not undefined, in order
RECURSIVE Defined(_)
Defined(cs) ==
    IF cs = <<>> THEN <<>>
    ELSE IF Head(cs) = Undefined THEN Defined(Tail(cs))
         ELSE <<Head(cs)>> \o Defined(Tail(cs))

\* and(...cs), or(...cs): undefined arguments are dropped; none left gives
\* undefined, one left gives that one
Combine(op, cs) ==
    LET ds == Defined(cs)
    IN  IF Len(ds) = 0 THEN Undefined
        ELSE IF Len(ds) = 1 THEN ds[1]
        ELSE [op |-> op, col |-> "", val |-> JNull, args |-> ds]
\* the last argument alone
SqlAndLast(cs) == IF cs = <<>> THEN Undefined ELSE cs[Len(cs)]

SqlAnd(cs) == Combine("and", cs)
SqlOr(cs) == Combine("or", cs)

\* the operators of the switch in buildWhereCondition and the fragment of each
WhereOperators == {"eq", "like", "gt", "gte", "lt", "lte", "ne"}
OperatorSql(op, field, val) ==
    CASE op = "eq" -> Cmp("eq", field, val)
      [] op = "like" -> Cmp("ilike", field, val)
      [] op = "gt" -> Cmp("gt", field, val)
      [] op = "gte" -> Cmp("gte", field, val)
      [] op = "lt" -> Cmp("lt", field, val)
      [] op = "lte" -> Cmp("lte", field, val)
      [] op = "ne" -> SqlNot(Cmp("eq", field, val))

\* the first error of a list of results, NoError if there is none
RECURSIVE FirstError(_)
FirstError(rs) ==
    IF rs = <<>> THEN NoError
    ELSE IF Head(rs).err # NoError THEN Head(rs).err
         ELSE FirstError(Tail(rs))

\* all the fragments of a list of results, in order
RECURSIVE AllSqls(_)
AllSqls(rs) ==
    IF rs = <<>> THEN <<>> ELSE Head(rs).sqls \o AllSqls(Tail(rs))

Thrown(e) == [err |-> e, sqls |-> <<>>]
Pushed(cs) == [err |-> NoError, sqls |-> cs]

(***************************************************************************)
(* buildWhereCondition(whereObj, tableSchema).  The result is              *)
(* [err, sqls]: the error thrown, or <<the fragment returned>>.            *)
(* EntryConditions is one turn of its loop: what the entry pushes onto     *)
(* `conditions`, or the error it throws.                                   *)
(***************************************************************************)
RECURSIVE buildWhereCondition(_, _)
RECURSIVE EntryConditions(_, _, _)

\* the switch without its default branch: other operators give no fragment
FieldConditionsLenient(key, value, table) ==
    IF value.t = "null" THEN Thrown(TypeError)
    ELSE LET es == SelectSeq(Entries(value), LAMBDA e : e[1] \in WhereOperators)
         IN  Pushed([i \in DOMAIN es |->
                        OperatorSql(es[i][1], Column(table, key), es[i][2])])

FieldConditions(key, value, table) ==
    IF value.t = "null" THEN Thrown(TypeError)
    ELSE LET es == Entries(value)
             bad == {i \in DOMAIN es : es[i][1] \notin WhereOperators}
         IN  IF bad # {}
             THEN LET i == CHOOSE i \in bad : \A k \in bad : i <= k
                  IN  Thrown(<<"Unsupported operator", es[i][1]>>)
             ELSE Pushed([i \in DOMAIN es |->
                             OperatorSql(es[i][1], Column(table, key), es[i][2])])

EntryConditions(key, value, table) ==
    CASE key = "OR" ->
            IF value.t # "arr" THEN Thrown(TypeError)
            ELSE LET rs == [i \in DOMAIN value.e |->
                               buildWhereCondition(value.e[i][2], table)]
                 IN  IF FirstError(rs) # NoError THEN Thrown(FirstError(rs))
                     ELSE Pushed(<<SqlOr(AllSqls(rs))>>)
      [] key = "AND" ->
            LET r == buildWhereCondition(value, table)
            IN  IF r.err # NoError THEN r ELSE Pushed(r.sqls)
      [] key = "NOT" ->
            LET r == buildWhereCondition(value, table)
            IN  IF r.err # NoError THEN r ELSE Pushed(<<SqlNot(r.sqls[1])>>)
      [] OTHER -> FieldConditions(key, value, table)

buildWhereCondition(whereObj, table) ==
    IF whereObj.t = "null" THEN Thrown(TypeError)
    ELSE LET es == Entries(whereObj)
             rs == [i \in DOMAIN es |-> EntryConditions(es[i][1], es[i][2], table)]
             conditions == AllSqls(rs)
         IN  IF FirstError(rs) # NoError THEN Thrown(FirstError(rs))
             ELSE IF Len(conditions) = 1 THEN Pushed(<<conditions[1]>>)
             ELSE Pushed(<<SqlAnd(conditions)>>)

(***************************************************************************)
(* The store's evaluation of a fragment on a row.                          *)
(*   - a parameter that is not a scalar is bound as its JSON text: it      *)
(*     equals no cell, and the store rejects ordering it against a cell;   *)
(*   - undefined in place of a column, or under NOT, renders as nothing,   *)
(*     which leaves broken SQL that the store rejects.                     *)
(***************************************************************************)
\* ILIKE compares case-insensitively: codes 2k and 2k+1 differ only in case
Fold(v) == v \div 2

RECURSIVE SqlOk(_)
SqlOk(c) ==
    CASE c.op = "undefined" -> FALSE
      [] c.op = "eq" -> c.col # NoColumn
      [] c.op \in {"ilike", "gt", "gte", "lt", "lte"} ->
            c.col # NoColumn /\ c.val.t = "num"
      [] c.op \in {"not", "and", "or"} -> \A i \in DOMAIN c.args : SqlOk(c.args[i])

RECURSIVE SqlEval(_, _)
SqlEval(c, row) ==
    CASE c.op = "eq" -> c.val.t = "num" /\ row[c.col] = c.val.v
      [] c.op = "ilike" -> Fold(row[c.col]) = Fold(c.val.v)
      [] c.op = "gt" -> row[c.col] > c.val.v
      [] c.op = "gte" -> row[c.col] >= c.val.v
      [] c.op = "lt" -> row[c.col] < c.val.v
      [] c.op = "lte" -> row[c.col] <= c.val.v
      [] c.op = "not" -> ~SqlEval(c.args[1], row)
      [] c.op = "and" -> \A i \in DOMAIN c.args : SqlEval(c.args[i], row)
      [] c.op = "or" -> \E i \in DOMAIN c.args : SqlEval(c.args[i], row)

(***************************************************************************)
(* The store: rows of "posts".  Every column has a default, the id is      *)
(* generated (schema.ts: defaultRandom), so an insert fills the columns    *)
(* the record leaves out.                                                  *)
(***************************************************************************)
\* a record of a request body: a list of <<column, value>>
RECURSIVE SetColumns(_, _)
SetColumns(row, data) ==
    IF data = <<>> THEN row
    ELSE SetColumns([row EXCEPT ![Head(data)[1]] = Head(data)[2]], Tail(data))

DefaultRow(id) == [id |-> id, title |-> 0, content |-> 0]

\* the rows of `rows` that satisfy the fragment, in order (Undefined: all)
Matching(rows, cond) ==
    IF cond = Undefined THEN rows
    ELSE SelectSeq(rows, LAMBDA row : SqlEval(cond, row))

\* an insert that adds nothing when a row with these values is there already
InsertRowOnce(rows, id, data) ==
    IF \E i \in DOMAIN rows : [rows[i] EXCEPT !.id = id] = SetColumns(DefaultRow(id), data)
    THEN rows
    ELSE Append(rows, SetColumns(DefaultRow(id), data))

InsertRow(rows, id, data) == Append(rows, SetColumns(DefaultRow(id), data))

UpdateRows(rows, cond, data) ==
    [i \in DOMAIN rows |->
        IF cond = Undefined \/ SqlEval(cond, rows[i])
        THEN SetColumns(rows[i], data) ELSE rows[i]]

DeleteRows(rows, cond) ==
    IF cond = Undefined THEN <<>>
    ELSE SelectSeq(rows, LAMBDA row : ~SqlEval(cond, row))

\* the store rejects a statement whose filter is broken SQL
Rejected(cond) == cond # Undefined /\ ~SqlOk(cond)

(***************************************************************************)
(* The outcome of a handler run.                                           *)
(*   status 0: the handler threw (its promise rejects), there is no        *)
(*   response; body: the words of the text body; rows: the JSON rows.      *)
(***************************************************************************)
Outcome(status, body, rows, sent, rows2, id2) ==
    [status |-> status, body |-> body, rows |-> rows, ops |-> sent,
     store |-> rows2, nextId |-> id2, raised |-> FALSE]

\* the store raised on the operation: it changed nothing
StoreRaised(status, body, sent) ==
    [status |-> status, body |-> body, rows |-> <<>>, ops |-> sent,
     store |-> store, nextId |-> nextId, raised |-> TRUE]

\* a response sent before anything reached the store
Respond(status, body) == Outcome(status, body, <<>>, <<>>, store, nextId)
\* an exception that leaves the handler
Throws(e) == Outcome(0, e, <<>>, <<>>, store, nextId)

(***************************************************************************)
(* Requests.  One record shape serves both methods; a GET leaves the POST  *)
(* fields at their absent values and conversely.                           *)
(*   select : the names of select.split(','), NoSelect if absent           *)
(*   limit, offset : the parameter's characters, <<>> if absent or empty   *)
(*   data : the JSON record of the body, a list of <<column, value>>       *)
(***************************************************************************)
NoSelect == <<>>
NoText == <<>>

GetRequest(adapter, select, from, where, orderBy, limit, offset) ==
    [method |-> "GET", adapter |-> adapter, select |-> select, from |-> from,
     where |-> where, orderBy |-> orderBy, limit |-> limit, offset |-> offset,
     action |-> Null, table |-> Null, data |-> <<>>]

PostRequest(adapter, action, table, where, data) ==
    [method |-> "POST", adapter |-> adapter, select |-> NoSelect, from |-> Null,
     where |-> where, orderBy |-> PAbsent, limit |-> NoText, offset |-> NoText,
     action |-> action, table |-> table, data |-> data]

(***************************************************************************)
(* parseInt(text, 10): leading blanks, an optional sign, then the longest  *)
(* run of digits; NaN when that run is empty.  What follows is ignored.    *)
(***************************************************************************)
Digits == <<"0", "1", "2", "3", "4", "5", "6", "7", "8", "9">>
IsDigit(c) == \E d \in DOMAIN Digits : Digits[d] = c
DigitValue(c) == (CHOOSE d \in DOMAIN Digits : Digits[d] = c) - 1

RECURSIVE SkipBlanks(_)
SkipBlanks(t) == IF t # <<>> /\ Head(t) = " " THEN SkipBlanks(Tail(t)) ELSE t

RECURSIVE DigitRun(_, _)
DigitRun(t, acc) ==
    IF t # <<>> /\ IsDigit(Head(t))
    THEN DigitRun(Tail(t), acc * 10 + DigitValue(Head(t)))
    ELSE acc

ParseInt(text) ==
    LET t == SkipBlanks(text)
        signed == t # <<>> /\ Head(t) \in {"-", "+"}
        u == IF signed THEN Tail(t) ELSE t
        n == DigitRun(u, 0)
    IN  IF u = <<>> \/ ~IsDigit(Head(u)) THEN [nan |-> TRUE, n |-> 0]
        ELSE [nan |-> FALSE, n |-> IF signed /\ Head(t) = "-" THEN 0 - n ELSE n]

(***************************************************************************)
(* The rows a SELECT returns: filter, ORDER BY, OFFSET, LIMIT, projection. *)
(* Rows that the ORDER BY does not tell apart keep their insertion order.  *)
(***************************************************************************)
\* the comparison by the first order entry alone
BeforeFirstKey(a, b, orders) ==
    /\ orders # <<>>
    /\ IF orders[1][2] = "asc" THEN a[orders[1][1]] < b[orders[1][1]]
       ELSE a[orders[1][1]] > b[orders[1][1]]

\* row a goes before row b under the order entries <<column, "asc"|"desc">>
RECURSIVE Before(_, _, _)
Before(a, b, orders) ==
    IF orders = <<>> THEN FALSE
    ELSE LET c == Head(orders)[1]
             up == Head(orders)[2] = "asc"
         IN  IF a[c] # b[c] THEN (IF up THEN a[c] < b[c] ELSE a[c] > b[c])
             ELSE Before(a, b, Tail(orders))

\* insert row into the sorted list, after the rows it does not go before
RECURSIVE InsertSorted(_, _, _)
InsertSorted(row, sorted, orders) ==
    IF sorted = <<>> THEN <<row>>
    ELSE IF Before(row, Head(sorted), orders) THEN <<row>> \o sorted
         ELSE <<Head(sorted)>> \o InsertSorted(row, Tail(sorted), orders)

RECURSIVE SortRows(_, _)
SortRows(rows, orders) ==
    IF rows = <<>> THEN <<>>
    ELSE InsertSorted(rows[Len(rows)], SortRows(SubSeq(rows, 1, Len(rows) - 1), orders),
                      orders)

NoLimit == -1

\* skip `offset` rows, then keep at most `limit` (NoLimit: all)
Page(rows, limit, offset) ==
    LET rest == SubSeq(rows, offset + 1, Len(rows))
    IN  IF limit = NoLimit \/ limit >= Len(rest) THEN rest
        ELSE SubSeq(rest, 1, limit)

\* the whole row, whatever the names
ProjectWhole(row, names) == row

\* the record of the selected names of a row
Project(row, names) == [c \in {names[i] : i \in DOMAIN names} |-> row[c]]

SelectRows(rows, names, cond, orders, limit, offset) ==
    LET page == Page(SortRows(Matching(rows, cond), orders), limit, offset)
    IN  [i \in DOMAIN page |-> Project(page[i], names)]

(***************************************************************************)
(* Drizzle adapter, GET.  Each stage gives [err, ...]: the body of the 400 *)
(* it answers with, or NoError and its value.                              *)
(***************************************************************************)
\* lines 126-141: the where parameter
GetWhere(r) ==
    IF FalsyParam(r.where) THEN [err |-> NoError, cond |-> Undefined]
    ELSE IF r.where.k = "malformed"
    THEN [err |-> <<"Invalid where clause">> \o SyntaxError, cond |-> Undefined]
    ELSE LET b == buildWhereCondition(r.where.j, r.from)
         IN  IF b.err # NoError
             THEN [err |-> <<"Invalid where clause">> \o b.err, cond |-> Undefined]
             ELSE [err |-> NoError, cond |-> b.sqls[1]]

\* the loop skipping the entries whose field is not selected
OrderEntriesSkipping(r, es) ==
    LET kept == SelectSeq(es, LAMBDA e : \E k \in DOMAIN r.select : r.select[k] = e[1])
    IN  [err |-> NoError,
         orders |-> [i \in DOMAIN kept |->
                       <<Column(r.from, kept[i][1]),
                         IF kept[i][2] = JStr("asc") THEN "asc" ELSE "desc">>]]

\* lines 148-157: the loop over the order entries
OrderEntries(r, es) ==
    LET bad == {i \in DOMAIN es : \A k \in DOMAIN r.select : r.select[k] # es[i][1]}
    IN  IF bad # {}
        THEN LET i == CHOOSE i \in bad : \A k \in bad : i <= k
             IN  [err |-> <<"Invalid order field", es[i][1]>>, orders |-> <<>>]
        ELSE [err |-> NoError,
              orders |-> [i \in DOMAIN es |->
                            <<Column(r.from, es[i][1]),
                              IF es[i][2] = JStr("asc") THEN "asc" ELSE "desc">>]]

\* lines 143-168: the orderBy parameter
GetOrder(r) ==
    IF FalsyParam(r.orderBy) THEN [err |-> NoError, orders |-> <<>>]
    ELSE IF r.orderBy.k = "malformed"
    THEN [err |-> <<"Invalid order clause">> \o SyntaxError, orders |-> <<>>]
    ELSE IF r.orderBy.j.t = "null"
    THEN [err |-> <<"Invalid order clause">> \o TypeError, orders |-> <<>>]
    ELSE OrderEntries(r, Entries(r.orderBy.j))

\* lines 170-182: limit and offset
GetNumber(text, name, absent) ==
    IF text = NoText THEN [err |-> NoError, n |-> absent]
    ELSE LET v == ParseInt(text)
         IN  IF v.nan \/ v.n < 0 THEN [err |-> <<name>>, n |-> absent]
             ELSE [err |-> NoError, n |-> v.n]

\* a query that takes the rows it returns out of the table
DrizzleExecuteTaking(r, cond, orders, limit, offset, fail) ==
    IF \E k \in DOMAIN r.select : Column(r.from, r.select[k]) = NoColumn
    THEN Respond(500, <<"Database query failed">>)
    ELSE IF fail \/ Rejected(cond) \/ \E i \in DOMAIN orders : orders[i][1] = NoColumn
    THEN StoreRaised(500, <<"Database query failed">>, <<"select">>)
    ELSE Outcome(200, <<>>, SelectRows(store, r.select, cond, orders, limit, offset),
                 <<"select">>, DeleteRows(store, cond), nextId)

\* lines 184-194: query.execute() under try/catch
DrizzleExecute(r, cond, orders, limit, offset, fail) ==
    IF \E k \in DOMAIN r.select : Column(r.from, r.select[k]) = NoColumn
    THEN \* preparing the query throws on the undefined field: nothing is sent
         Respond(500, <<"Database query failed">>)
    ELSE IF fail \/ Rejected(cond) \/ \E i \in DOMAIN orders : orders[i][1] = NoColumn
    THEN StoreRaised(500, <<"Database query failed">>, <<"select">>)
    ELSE Outcome(200, <<>>, SelectRows(store, r.select, cond, orders, limit, offset),
                 <<"select">>, store, nextId)

DrizzleGET(r, fail) ==
    IF r.select = NoSelect \/ Falsy(r.from) THEN Respond(400, <<"Invalid request">>)
    ELSE IF r.from \notin Tables THEN Throws(TypeError)
    ELSE LET w == GetWhere(r)
             o == GetOrder(r)
             l == GetNumber(r.limit, "Invalid limit value", NoLimit)
             f == GetNumber(r.offset, "Invalid offset value", 0)
         IN  IF w.err # NoError THEN Respond(400, w.err)
             ELSE IF o.err # NoError THEN Respond(400, o.err)
             ELSE IF l.err # NoError THEN Respond(400, l.err)
             ELSE IF f.err # NoError THEN Respond(400, f.err)
             ELSE DrizzleExecute(r, w.cond, o.orders, l.n, f.n, fail)

(***************************************************************************)
(* Drizzle adapter, POST.                                                  *)
(***************************************************************************)
\* lines 234-237: one eq per top-level entry of the where object
PostConditions(r, es) ==
    [i \in DOMAIN es |-> Cmp("eq", Column(r.table, es[i][1]), es[i][2])]

\* .where(...whereCondition): where takes one fragment, the first; with
\* nothing to spread it gets undefined
WhereOf(whereCondition) ==
    IF whereCondition = <<>> THEN Undefined ELSE whereCondition[1]

\* the emptiness test left out
NoConditionsUnchecked(whereCondition) == FALSE

\* line 238: whereCondition.length === 0
NoConditions(whereCondition) == Len(whereCondition) = 0

\* line 226: db.insert(schema[table]).values(data)
DrizzleInsert(r, fail) ==
    IF r.table \notin Tables
    THEN Respond(500, <<"Database operation failed">>)
    ELSE IF fail
    THEN StoreRaised(500, <<"Database operation failed">>, <<"insert">>)
    ELSE Outcome(200, <<"Operation successful">>, <<>>, <<"insert">>,
                 InsertRow(store, nextId, r.data), nextId + 1)

\* the statement sent again when the store raises
DrizzleWriteRetrying(r, cond, fail) ==
    LET op == IF r.action = "update" THEN "update" ELSE "delete"
    IN  IF op = "update" /\ r.data = <<>>
        THEN Respond(500, <<"Database operation failed">>)
        ELSE IF fail \/ Rejected(cond)
        THEN StoreRaised(500, <<"Database operation failed">>, <<op, op>>)
        ELSE Outcome(200, <<"Operation successful">>, <<>>, <<op>>,
                     IF op = "update" THEN UpdateRows(store, cond, r.data)
                     ELSE DeleteRows(store, cond),
                     nextId)

\* lines 243-248: update for 'update', delete for everything else
DrizzleWrite(r, cond, fail) ==
    LET op == IF r.action = "update" THEN "update" ELSE "delete"
    IN  IF op = "update" /\ r.data = <<>>
        THEN \* .set({}) throws "No values to set": nothing is sent
             Respond(500, <<"Database operation failed">>)
        ELSE IF fail \/ Rejected(cond)
        THEN StoreRaised(500, <<"Database operation failed">>, <<op>>)
        ELSE Outcome(200, <<"Operation successful">>, <<>>, <<op>>,
                     IF op = "update" THEN UpdateRows(store, cond, r.data)
                     ELSE DeleteRows(store, cond),
                     nextId)

\* the where parameter tested only after the statement has run
DrizzlePOSTTestingLate(r, fail) ==
    IF r.action = "insert" THEN DrizzleInsert(r, fail)
    ELSE IF FalsyParam(r.where)
    THEN LET out == DrizzleWrite(r, Undefined, fail)
         IN  [out EXCEPT !.status = 400,
                         !.body = <<"Where clause is required for update">>]
    ELSE IF r.where.k = "malformed" \/ r.where.j.t = "null"
    THEN \* JSON.parse or Object.entries throws inside the try
         Respond(500, <<"Database operation failed">>)
    ELSE LET es == Entries(r.where.j)
         IN  IF es # <<>> /\ r.table \notin Tables
             THEN \* schema[table][key] throws inside the try
                  Respond(500, <<"Database operation failed">>)
             ELSE IF NoConditions(PostConditions(r, es))
             THEN Respond(400, <<"Where condition is required for update">>)
             ELSE DrizzleWrite(r, WhereOf(PostConditions(r, es)), fail)

DrizzlePOST(r, fail) ==
    IF r.action = "insert" THEN DrizzleInsert(r, fail)
    ELSE IF FalsyParam(r.where)
    THEN Respond(400, <<"Where clause is required for update">>)
    ELSE IF r.where.k = "malformed" \/ r.where.j.t = "null"
    THEN \* JSON.parse or Object.entries throws inside the try
         Respond(500, <<"Database operation failed">>)
    ELSE LET es == Entries(r.where.j)
         IN  IF es # <<>> /\ r.table \notin Tables
             THEN \* schema[table][key] throws inside the try
                  Respond(500, <<"Database operation failed">>)
             ELSE IF NoConditions(PostConditions(r, es))
             THEN Respond(400, <<"Where condition is required for update">>)
             ELSE DrizzleWrite(r, WhereOf(PostConditions(r, es)), fail)

(***************************************************************************)
(* Prisma adapter.  The where object goes to the client as it is; the      *)
(* client validates it before it sends anything.                           *)
(***************************************************************************)
PrismaOperators == {"equals", "gt", "gte", "lt", "lte", "not"}

PrismaFieldOk(v) ==
    \/ v.t = "num"
    \/ /\ v.t = "obj"
       /\ \A i \in DOMAIN v.e : v.e[i][1] \in PrismaOperators /\ v.e[i][2].t = "num"

PrismaFieldEval(v, cell) ==
    IF v.t = "num" THEN cell = v.v
    ELSE \A i \in DOMAIN v.e :
            LET op == v.e[i][1]
                x == v.e[i][2].v
            IN  CASE op = "equals" -> cell = x
                  [] op = "not" -> cell # x
                  [] op = "gt" -> cell > x
                  [] op = "gte" -> cell >= x
                  [] op = "lt" -> cell < x
                  [] op = "lte" -> cell <= x

RECURSIVE PrismaOk(_)
PrismaOk(w) ==
    /\ w.t = "obj"
    /\ \A i \in DOMAIN w.e :
          LET k == w.e[i][1]
              v == w.e[i][2]
          IN  CASE k = "OR" -> v.t = "arr" /\ \A n \in DOMAIN v.e : PrismaOk(v.e[n][2])
                [] k \in {"AND", "NOT"} ->
                      IF v.t = "arr" THEN \A n \in DOMAIN v.e : PrismaOk(v.e[n][2])
                      ELSE PrismaOk(v)
                [] OTHER -> k \in Columns /\ PrismaFieldOk(v)

RECURSIVE PrismaEval(_, _)
PrismaEval(w, row) ==
    \A i \in DOMAIN w.e :
        LET k == w.e[i][1]
            v == w.e[i][2]
        IN  CASE k = "OR" -> \E n \in DOMAIN v.e : PrismaEval(v.e[n][2], row)
              [] k = "AND" ->
                    IF v.t = "arr" THEN \A n \in DOMAIN v.e : PrismaEval(v.e[n][2], row)
                    ELSE PrismaEval(v, row)
              [] k = "NOT" ->
                    IF v.t = "arr" THEN \A n \in DOMAIN v.e : ~PrismaEval(v.e[n][2], row)
                    ELSE ~PrismaEval(v, row)
              [] OTHER -> PrismaFieldEval(v, row[k])

\* update and delete take a unique filter: it must give the id
PrismaUniqueOk(w) ==
    PrismaOk(w) /\ \E i \in DOMAIN w.e : w.e[i][1] = "id" /\ w.e[i][2].t = "num"

\* orderBy as the client accepts it
PrismaOrderOk(o) ==
    /\ o.t = "obj"
    /\ \A i \in DOMAIN o.e : o.e[i][1] \in Columns /\ o.e[i][2] \in {JStr("asc"), JStr("desc")}

PrismaOrders(o) == [i \in DOMAIN o.e |-> <<o.e[i][1], o.e[i][2].s>>]

Reverse(q) == [i \in DOMAIN q |-> q[Len(q) + 1 - i]]

\* findMany's rows: take is parseInt(limit) when the parameter is there, and
\* a negative take counts from the end of the list
PrismaRows(rows, names, w, orders, limit, skip) ==
    LET hit == SelectSeq(rows, LAMBDA row : PrismaEval(w, row))
        sorted == SortRows(hit, orders)
        take == ParseInt(limit).n
        page == IF limit = NoText THEN Page(sorted, NoLimit, skip)
                ELSE IF take < 0 THEN Reverse(Page(Reverse(sorted), 0 - take, skip))
                ELSE Page(sorted, take, skip)
    IN  [i \in DOMAIN page |-> Project(page[i], names)]

\* prisma.ts lines 9-39; findMany is not under a try
PrismaGET(r, fail) ==
    IF r.select = NoSelect \/ Falsy(r.from) THEN Respond(400, <<"Invalid request">>)
    ELSE IF r.from \notin Tables THEN Throws(TypeError)
    ELSE IF r.where.k = "malformed" \/ r.orderBy.k = "malformed" THEN Throws(SyntaxError)
    ELSE LET w == IF FalsyParam(r.where) THEN JObj(<<>>) ELSE r.where.j
             o == IF FalsyParam(r.orderBy) THEN JObj(<<>>) ELSE r.orderBy.j
             take == IF r.limit = NoText THEN [nan |-> FALSE, n |-> 0]
                     ELSE ParseInt(r.limit)
             skip == IF r.offset = NoText THEN [nan |-> FALSE, n |-> 0]
                     ELSE ParseInt(r.offset)
         IN  IF \/ \E k \in DOMAIN r.select : r.select[k] \notin Columns
                \/ ~PrismaOk(w) \/ ~PrismaOrderOk(o)
                \/ take.nan \/ skip.nan \/ skip.n < 0
             THEN Throws(<<"PrismaClientValidationError">>)
             ELSE IF fail
             THEN StoreRaised(0, <<"PrismaClientKnownRequestError">>, <<"select">>)
             ELSE Outcome(200, <<>>,
                          PrismaRows(store, r.select, w, PrismaOrders(o), r.limit, skip.n),
                          <<"select">>, store, nextId)

\* prisma.ts lines 54-60: delete for 'delete', update for everything else
PrismaWrite(r, w, fail) ==
    LET op == IF r.action = "delete" THEN "delete" ELSE "update"
        hit == \E i \in DOMAIN store : PrismaEval(w, store[i])
    IN  IF ~PrismaUniqueOk(w)
        THEN Respond(500, <<"Database operation failed">>)
        ELSE IF fail \/ ~hit
        THEN StoreRaised(500, <<"Database operation failed">>, <<op>>)
        ELSE Outcome(200, <<"Operation successful">>, <<>>, <<op>>,
                     IF op = "delete"
                     THEN SelectSeq(store, LAMBDA row : ~PrismaEval(w, row))
                     ELSE [i \in DOMAIN store |->
                             IF PrismaEval(w, store[i])
                             THEN SetColumns(store[i], r.data) ELSE store[i]],
                     nextId)

\* prisma.ts lines 41-69
PrismaPOST(r, fail) ==
    IF r.table \notin Tables
    THEN \* db[table] is undefined: the call throws inside the try
         Respond(500, <<"Database operation failed">>)
    ELSE IF r.action = "insert"
    THEN IF fail
         THEN StoreRaised(500, <<"Database operation failed">>, <<"insert">>)
         ELSE Outcome(200, <<"Operation successful">>, <<>>, <<"insert">>,
                      InsertRow(store, nextId, r.data), nextId + 1)
    ELSE IF r.where.k \in {"empty", "malformed"}
    THEN \* JSON.parse throws inside the try
         Respond(500, <<"Database operation failed">>)
    ELSE PrismaWrite(r, IF r.where.k = "absent" THEN JObj(<<>>) ELSE r.where.j, fail)

(***************************************************************************)
(* The requests of the model.  Every parameter ranges over the values      *)
(* below; a request departs from the plain request of its method in at     *)
(* most MaxDeparture parameters.                                           *)
(***************************************************************************)
MaxDeparture == 2

Field(key, op, n) == <<key, JObj(<< <<op, JNum(n)>> >>)>>
Node(entry) == JObj(<<entry>>)
Item(i, j) == <<Digits[i + 1], j>>

\* where objects for the filter compiler
WhereTrees ==
    {Node(Field("title", op, 1)) : op \in WhereOperators}
    \cup {Node(Field("id", op, 2)) : op \in {"gt", "lte", "ne"}}
    \cup {
        JObj(<<>>),
        JNull,
        Node(Field("title", "contains", 1)),
        Node(Field("author", "eq", 1)),
        Node(<<"id", JNum(1)>>),
        Node(<<"id", JObj(<< <<"gt", JNum(1)>>, <<"lte", JNum(2)>> >>)>>),
        Node(<<"id", JObj(<< <<"ne", JNum(2)>>, <<"gte", JNum(2)>> >>)>>),
        Node(<<"title", JObj(<< <<"gte", JNum(1)>>, <<"regex", JNum(1)>> >>)>>),
        JObj(<<Field("id", "gte", 2), Field("title", "eq", 1)>>),
        Node(<<"OR", JArr(<<>>)>>),
        Node(<<"OR", JArr(<<Item(0, Node(Field("id", "eq", 1))),
                            Item(1, Node(Field("title", "eq", 2)))>>)>>),
        Node(<<"OR", JArr(<<Item(0, JObj(<<>>)),
                            Item(1, Node(Field("id", "eq", 1)))>>)>>),
        Node(<<"OR", Node(Field("id", "eq", 1))>>),
        Node(<<"AND", JObj(<<Field("id", "gte", 2), Field("title", "ne", 1)>>)>>),
        Node(<<"AND", JArr(<<Item(0, Node(Field("title", "eq", 1)))>>)>>),
        Node(<<"NOT", Node(Field("title", "eq", 1))>>),
        Node(<<"NOT", JObj(<<>>)>>),
        Node(<<"NOT", Node(Field("title", "regex", 1))>>),
        Node(<<"OR", JArr(<<Item(0, Node(Field("id", "eq", 1))),
                            Item(1, Node(<<"AND", Node(Field("title", "contains", 1))>>))>>)>>),
        Node(<<"OR", JArr(<<Item(0, Node(Field("id", "eq", 1))),
                            Item(1, Node(<<"NOT", Node(Field("author", "eq", 1))>>))>>)>>),
        Node(<<"AND", Node(Field("author", "gt", 0))>>),
        JObj(<<Field("title", "like", 0),
               <<"OR", JArr(<<Item(0, Node(Field("id", "lt", 2))),
                              Item(1, Node(<<"NOT", Node(Field("content", "eq", 0))>>))>>)>>>>),
        Node(<<"OR", JArr(<<Item(0, Node(<<"AND", JObj(<<Field("id", "gt", 1),
                                                         Field("title", "eq", 1)>>)>>)),
                            Item(1, Node(<<"NOT", Node(Field("id", "gt", 1))>>))>>)>>)
    }

GetSelects == {NoSelect, <<"id", "title">>, <<"id", "title", "content">>, <<"title">>, <<"">>}
GetFroms == {Null, "", "posts", "users"}
GetWheres == {PAbsent, PEmpty, PMalformed} \cup {PJson(j) : j \in WhereTrees}
GetOrders ==
    {PAbsent, PMalformed, PJson(JNull), PJson(JObj(<<>>)),
     PJson(Node(<<"title", JStr("asc")>>)),
     PJson(Node(<<"content", JStr("desc")>>)),
     PJson(JObj(<< <<"title", JStr("desc")>>, <<"id", JStr("asc")>> >>)),
     PJson(JObj(<< <<"title", JStr("asc")>>, <<"id", JStr("desc")>> >>)),
     PJson(JObj(<< <<"title", JStr("asc")>>, <<"content", JStr("asc")>> >>))}
GetLimits == {NoText, <<"1">>, <<"0">>, <<"-", "1">>, <<"a">>, <<"1", ".", "5">>, <<"2", "x">>}
GetOffsets == {NoText, <<"1">>, <<"-", "1">>, <<"x">>}

Adapters == {"drizzle", "prisma"}

PlainGet(adapter) ==
    GetRequest(adapter, <<"id", "title">>, "posts", PAbsent, PAbsent, NoText, NoText)

GetParameters == {"select", "from", "where", "orderBy", "limit", "offset"}

PostActions == {Null, "insert", "update", "delete", "upsert"}
PostTables == {Null, "posts", "users"}
PostWheres ==
    {PAbsent, PEmpty, PMalformed, PJson(JObj(<<>>)), PJson(JNull), PJson(JArr(<<>>)),
     PJson(Node(<<"id", JNum(1)>>)),
     PJson(Node(<<"title", JNum(1)>>)),
     PJson(Node(Field("id", "eq", 1))),
     PJson(Node(<<"author", JNum(1)>>)),
     PJson(JObj(<< <<"id", JNum(2)>>, <<"title", JNum(2)>> >>)),
     PJson(JObj(<< <<"title", JNum(1)>>, <<"content", JNum(0)>> >>))}
PostDatas == {<<>>, << <<"title", MaxVal>> >>}

PlainPost(adapter) ==
    PostRequest(adapter, "update", "posts", PJson(Node(<<"id", JNum(1)>>)),
                << <<"title", MaxVal>> >>)

PostParameters == {"action", "table", "where", "data"}

\* the sets of parameters in which a request departs, at most `most` of them
Departures(names, most) == {D \in SUBSET names : Cardinality(D) <= most}

\* the values of a parameter in a request that departs exactly in D
Range(D, name, values, plain) == IF name \in D THEN values \ {plain} ELSE {plain}

(***************************************************************************)
(* The state machine.  A handler takes a request and runs to its response  *)
(* in one step; Reply hands the response over and ends the run, whose      *)
(* request-scoped state is dropped.                                        *)
(***************************************************************************)
NoRequest ==
    [method |-> "none", adapter |-> "none", select |-> NoSelect, from |-> Null,
     where |-> PAbsent, orderBy |-> PAbsent, limit |-> NoText, offset |-> NoText,
     action |-> Null, table |-> Null, data |-> <<>>]
NoResponse == [status |-> 0, body |-> <<>>, rows |-> <<>>]

\* the options of createDatabaseQueryOptions, none given
NoQuery ==
    [select |-> [form |-> "none", entries |-> <<>>], from |-> Null,
     where |-> PAbsent, order |-> PAbsent, limit |-> NoLimit, offset |-> NoLimit]
NoValue == [t |-> "none", text |-> <<>>]
NoUrl ==
    [select |-> NoText, from |-> Null, where |-> NoText, order |-> NoText,
     orderBy |-> NoText, limit |-> NoText, offset |-> NoText]
NoClient ==
    [variant |-> "none", query |-> NoQuery, url |-> NoUrl, key |-> <<>>,
     leaf |-> NoValue, decoded |-> NoValue]

\* the table of the end-to-end scenarios
InitialRows ==
    <<[id |-> 1, title |-> 1, content |-> 0], [id |-> 2, title |-> 1, content |-> MaxVal]>>

Idle ==
    /\ req = NoRequest
    /\ resp = NoResponse
    /\ ops = <<>>
    /\ raised = FALSE
    /\ pre = store
    /\ client = NoClient

Init ==
    /\ store = InitialRows
    /\ nextId = Len(InitialRows) + 1
    /\ Idle

\* tables to query: empty, the scenarios' table, and one with a third row
Datasets ==
    {<<>>, InitialRows, Append(InitialRows, [id |-> 3, title |-> 0, content |-> 1])}

InitGet ==
    /\ store \in Datasets
    /\ nextId = Len(store) + 1
    /\ Idle

Run(r, outcome) ==
    LET out == outcome
    IN  /\ req' = r
        /\ pre' = store
        /\ store' = out.store
        /\ nextId' = out.nextId
        /\ resp' = [status |-> out.status, body |-> out.body, rows |-> out.rows]
        /\ ops' = out.ops
        /\ raised' = out.raised

\* a GET request that departs in at most `most` parameters arrives and is served
Get(adapter, most) ==
    /\ req = NoRequest
    /\ \E D \in Departures(GetParameters, most) :
       \E s \in Range(D, "select", GetSelects, PlainGet(adapter).select),
          f \in Range(D, "from", GetFroms, PlainGet(adapter).from),
          w \in Range(D, "where", GetWheres, PlainGet(adapter).where),
          o \in Range(D, "orderBy", GetOrders, PlainGet(adapter).orderBy),
          l \in Range(D, "limit", GetLimits, PlainGet(adapter).limit),
          x \in Range(D, "offset", GetOffsets, PlainGet(adapter).offset),
          fail \in BOOLEAN :
            LET r == GetRequest(adapter, s, f, w, o, l, x)
            IN  /\ Run(r, IF adapter = "drizzle" THEN DrizzleGET(r, fail)
                          ELSE PrismaGET(r, fail))
                /\ client' = NoClient

\* a POST request arrives and is served; the model stops inserting at MaxId
Post(adapter, most) ==
    /\ req = NoRequest
    /\ \E D \in Departures(PostParameters, most) :
       \E c \in Range(D, "action", PostActions, PlainPost(adapter).action),
          t \in Range(D, "table", PostTables, PlainPost(adapter).table),
          w \in Range(D, "where", PostWheres, PlainPost(adapter).where),
          d \in Range(D, "data", PostDatas, PlainPost(adapter).data),
          fail \in BOOLEAN :
            LET r == PostRequest(adapter, c, t, w, d)
            IN  /\ c = "insert" => nextId <= MaxId
                /\ Run(r, IF adapter = "drizzle" THEN DrizzlePOST(r, fail)
                          ELSE PrismaPOST(r, fail))
                /\ client' = NoClient

DrizzleGet == Get("drizzle", 1)
PrismaGet == Get("prisma", 1)
DrizzlePost == Post("drizzle", MaxDeparture)
PrismaPost == Post("prisma", MaxDeparture)

Reply ==
    /\ req # NoRequest
    /\ req' = NoRequest
    /\ resp' = NoResponse
    /\ ops' = <<>>
    /\ raised' = FALSE
    /\ pre' = store
    /\ client' = NoClient
    /\ UNCHANGED <<store, nextId>>

Next ==
    \/ DrizzleGet
    \/ PrismaGet
    \/ DrizzlePost
    \/ PrismaPost
    \/ Reply

Spec == Init /\ [][Next]_vars

\* the read side alone, over fixed tables, with requests that depart further
DrizzleQuery == Get("drizzle", MaxDeparture)
PrismaQuery == Get("prisma", MaxDeparture)

NextGet ==
    \/ DrizzleQuery
    \/ PrismaQuery
    \/ Reply

SpecGet == InitGet /\ [][NextGet]_vars

(***************************************************************************)
(* Properties.                                                             *)
(***************************************************************************)
DrizzlePosted == req.method = "POST" /\ req.adapter = "drizzle"
DrizzleGot == req.method = "GET" /\ req.adapter = "drizzle"

\* a where parameter that is absent, empty, or the object {}
EmptyFilter(p) == FalsyParam(p) \/ p = PJson(JObj(<<>>))

C2_UnknownActionRejected ==
    (req.method = "POST" /\ req.action \notin {"insert", "update", "delete"})
        => (resp.status = 400 /\ ops = <<>>)

(***************************************************************************)
(* The logical reading of a filter tree, evaluated directly on a row:      *)
(* a node is the conjunction of its entries; OR is the disjunction of its  *)
(* operands, AND the conjunction of its operand(s), NOT the negation; a    *)
(* field condition is the conjunction of its operators.  `like` matches    *)
(* without regard to case.                                                 *)
(***************************************************************************)
IsFieldCondition(key, v) ==
    /\ key \in Columns
    /\ v.t = "obj"
    /\ \A i \in DOMAIN v.e : v.e[i][1] \in WhereOperators /\ v.e[i][2].t = "num"

RECURSIVE IsFilterTree(_)
IsFilterTree(j) ==
    /\ j.t = "obj"
    /\ \A i \in DOMAIN j.e :
          LET k == j.e[i][1]
              v == j.e[i][2]
          IN  CASE k = "OR" -> v.t = "arr" /\ \A n \in DOMAIN v.e : IsFilterTree(v.e[n][2])
                [] k \in {"AND", "NOT"} -> IsFilterTree(v)
                [] OTHER -> IsFieldCondition(k, v)

Holds(op, cell, x) ==
    CASE op = "eq" -> cell = x
      [] op = "ne" -> cell # x
      [] op = "gt" -> cell > x
      [] op = "gte" -> cell >= x
      [] op = "lt" -> cell < x
      [] op = "lte" -> cell <= x
      [] op = "like" -> Fold(cell) = Fold(x)

RECURSIVE Interpret(_, _)
Interpret(j, row) ==
    \A i \in DOMAIN j.e :
        LET k == j.e[i][1]
            v == j.e[i][2]
        IN  CASE k = "OR" -> \E n \in DOMAIN v.e : Interpret(v.e[n][2], row)
              [] k = "AND" -> Interpret(v, row)
              [] k = "NOT" -> ~Interpret(v, row)
              [] OTHER -> \A n \in DOMAIN v.e : Holds(v.e[n][1], row[k], v.e[n][2].v)

Ids(rows) == {rows[i].id : i \in DOMAIN rows}

\* a Drizzle GET that selected the id and was answered 200 without paging
Filtered ==
    /\ DrizzleGot
    /\ resp.status = 200
    /\ req.where.k = "json"
    /\ \E k \in DOMAIN req.select : req.select[k] = "id"
    /\ req.limit = NoText /\ req.offset = NoText

\* C3: for every filter tree that compiles without error, the rows the
\* compiled predicate selects are exactly the rows on which the direct
\* evaluation of the tree is true.
C3_CompiledMatchesOracle ==
    (Filtered /\ IsFilterTree(req.where.j))
        => Ids(resp.rows) = {pre[i].id : i \in {n \in DOMAIN pre : Interpret(req.where.j, pre[n])}}

\* the update of end-to-end scenario 3
UpdateScenario ==
    /\ DrizzlePosted
    /\ req.action = "update"
    /\ req.table = "posts"
    /\ req.where = PJson(Node(Field("id", "eq", 1)))
    /\ req.data = << <<"title", MaxVal>> >>

\* C4: the update with where={"id":{"eq":1}} and body {"title": v} sets the
\* title of the row whose id is 1 and changes nothing else.
C4_UpdatesRowOne ==
    (UpdateScenario /\ ~raised)
        => store = [i \in DOMAIN pre |->
                      IF pre[i].id = 1 THEN [pre[i] EXCEPT !.title = MaxVal] ELSE pre[i]]

\* C5: an insert of record r that the store accepts is answered 200 and
\* the table is the old table followed by one new row with r's values,
\* whether or not a row with these values is already there.
C5_InsertAddsOneRow ==
    (req.method = "POST" /\ req.action = "insert" /\ req.table \in Tables /\ ~raised)
        => /\ resp.status = 200
           /\ Len(store) = Len(pre) + 1
           /\ SubSeq(store, 1, Len(pre)) = pre
           /\ \A i \in DOMAIN req.data :
                 store[Len(store)][req.data[i][1]] = req.data[i][2]

\* C5 happens: the second of two identical inserts was answered 200 and
\* the table ends with two rows that differ in the id alone
C5_Witness ==
    /\ DrizzlePosted
    /\ req.action = "insert"
    /\ req.data # <<>>
    /\ resp.status = 200
    /\ Len(store) = Len(pre) + 1
    /\ Len(store) >= 2
    /\ store[Len(store)].title = MaxVal
    /\ store[Len(store) - 1] = [store[Len(store)] EXCEPT !.id = @ - 1]

\* the order parameter names a field that is not in the select list
OrdersUnselected(r) ==
    /\ r.orderBy.k = "json"
    /\ r.orderBy.j.t = "obj"
    /\ \E i \in DOMAIN r.orderBy.j.e :
          \A k \in DOMAIN r.select : r.select[k] # r.orderBy.j.e[i][1]

FirstUnselected(r) ==
    LET es == r.orderBy.j.e
        bad == {i \in DOMAIN es : \A k \in DOMAIN r.select : r.select[k] # es[i][1]}
    IN  es[CHOOSE i \in bad : \A n \in bad : i <= n][1]

C7_MalformedWhereIs400 ==
    (/\ req.adapter = "drizzle"
     /\ req.where.k = "malformed"
     /\ \/ req.method = "GET" /\ req.select # NoSelect /\ req.from \in Tables
        \/ req.method = "POST" /\ req.action \in {"update", "delete"})
        => /\ resp.status = 400
           /\ \E i \in DOMAIN resp.body : resp.body[i] = "SyntaxError"
           /\ ops = <<>>

\* the fixed bodies of the 500 responses
GenericBodies == {<<"Database query failed">>, <<"Database operation failed">>}

\* C8: when the store raises a failure, the handler (GET or POST, either
\* adapter) answers 500 with a fixed generic body and no rows; the
\* exception does not leave the handler.
C8_StoreFailureIs500 ==
    raised => (resp.status = 500 /\ resp.body \in GenericBodies /\ resp.rows = <<>>)

\* C9: a run that ends with a 400 response has sent nothing to the store.
C9_NothingSentBefore400 ==
    resp.status = 400 => (ops = <<>> /\ store = pre)

\* C9 happens: the last validation of the GET handler failed
C9_Witness ==
    /\ DrizzleGot
    /\ resp.status = 400
    /\ resp.body = <<"Invalid offset value">>

\* a parameter that is absent or the digits of a non-negative integer
ValidNumber(text) == \A i \in DOMAIN text : IsDigit(text[i])

\* requests that meet the documented preconditions
ValidGet(r) ==
    /\ r.select # NoSelect
    /\ \A k \in DOMAIN r.select : r.select[k] \in Columns
    /\ r.from \in Tables
    /\ FalsyParam(r.where) \/ (r.where.k = "json" /\ IsFilterTree(r.where.j))
    /\ \/ FalsyParam(r.orderBy)
       \/ /\ r.orderBy.k = "json"
          /\ r.orderBy.j.t = "obj"
          /\ ~OrdersUnselected(r)
          /\ \A i \in DOMAIN r.orderBy.j.e :
                r.orderBy.j.e[i][2] \in {JStr("asc"), JStr("desc")}
    /\ ValidNumber(r.limit)
    /\ ValidNumber(r.offset)

ValidPost(r) ==
    /\ r.action \in {"insert", "update", "delete"}
    /\ r.table \in Tables
    /\ r.action = "update" => r.data # <<>>
    /\ r.action # "insert"
          => /\ r.where.k = "json"
             /\ r.where.j.t = "obj"
             /\ r.where.j.e # <<>>
             /\ \A i \in DOMAIN r.where.j.e : r.where.j.e[i][1] \in Columns

\* C10: a run sends at most one operation to the store, exactly one when
\* the request is valid, and one only when the store raised a failure.
C10_OneOperation ==
    /\ Len(ops) <= 1
    /\ (DrizzleGot /\ ValidGet(req)) => Len(ops) = 1
    /\ (DrizzlePosted /\ ValidPost(req)) => Len(ops) = 1
    /\ raised => Len(ops) = 1

\* C10 happens: the store raised on a valid update and the run ended
C10_Witness ==
    /\ DrizzlePosted
    /\ req.action = "update"
    /\ ValidPost(req)
    /\ raised
    /\ resp.status = 500
    /\ ops = <<"update">>

\* a where value shaped as a filter tree: objects, OR over a list of trees
RECURSIVE Shaped(_)
Shaped(j) ==
    /\ j.t = "obj"
    /\ \A i \in DOMAIN j.e :
          CASE j.e[i][1] = "OR" ->
                  j.e[i][2].t = "arr" /\ \A n \in DOMAIN j.e[i][2].e : Shaped(j.e[i][2].e[n][2])
            [] j.e[i][1] \in {"AND", "NOT"} -> Shaped(j.e[i][2])
            [] OTHER -> j.e[i][2].t = "obj"

\* some field condition of the tree, at any depth, uses an operator outside the set
RECURSIVE HasUnsupported(_)
HasUnsupported(j) ==
    /\ j.t = "obj"
    /\ \E i \in DOMAIN j.e :
          CASE j.e[i][1] = "OR" ->
                  j.e[i][2].t = "arr"
                  /\ \E n \in DOMAIN j.e[i][2].e : HasUnsupported(j.e[i][2].e[n][2])
            [] j.e[i][1] \in {"AND", "NOT"} -> HasUnsupported(j.e[i][2])
            [] OTHER ->
                  j.e[i][2].t = "obj"
                  /\ \E m \in DOMAIN j.e[i][2].e : j.e[i][2].e[m][1] \notin WhereOperators

\* a Drizzle GET that has a select list and names a table of the schema
DrizzleGotTable == DrizzleGot /\ req.select # NoSelect /\ req.from \in Tables

\* C11: a Drizzle GET on a table of the schema whose where tree holds, at
\* any depth, a field condition with an operator outside eq, like, gt,
\* gte, lt, lte, ne is answered 400 and no query is executed; when the
\* tree is well shaped the body names the unsupported operator.
C11_UnsupportedOperatorRejected ==
    (DrizzleGotTable /\ req.where.k = "json" /\ HasUnsupported(req.where.j))
        => /\ resp.status = 400
           /\ ops = <<>>
           /\ Shaped(req.where.j)
                 => /\ SubSeq(resp.body, 1, 2) = <<"Invalid where clause", "Unsupported operator">>
                    /\ resp.body[3] \notin WhereOperators

\* C11 happens: the operator sits under AND inside an OR operand
C11_Witness ==
    /\ DrizzleGotTable
    /\ req.where = PJson(Node(<<"OR", JArr(<<Item(0, Node(Field("id", "eq", 1))),
                     Item(1, Node(<<"AND", Node(Field("title", "contains", 1))>>))>>)>>))
    /\ resp.status = 400
    /\ resp.body = <<"Invalid where clause", "Unsupported operator", "contains">>

\* some field condition of the tree, at any depth, names a field the table lacks
RECURSIVE HasUnknownField(_)
HasUnknownField(j) ==
    /\ j.t = "obj"
    /\ \E i \in DOMAIN j.e :
          CASE j.e[i][1] = "OR" ->
                  j.e[i][2].t = "arr"
                  /\ \E n \in DOMAIN j.e[i][2].e : HasUnknownField(j.e[i][2].e[n][2])
            [] j.e[i][1] \in {"AND", "NOT"} -> HasUnknownField(j.e[i][2])
            [] OTHER -> j.e[i][1] \notin Columns

\* C12: a Drizzle GET on a table of the schema whose where tree names, at
\* any depth, a field that the table does not have is answered 400 and
\* nothing is sent to the store.
C12_UnknownFieldRejected ==
    (DrizzleGotTable /\ req.where.k = "json" /\ Shaped(req.where.j)
        /\ HasUnknownField(req.where.j))
        => (resp.status = 400 /\ ops = <<>>)

\* the request names a table, and the schema has no such table
UnknownTable ==
    \/ DrizzleGot /\ req.select # NoSelect /\ ~Falsy(req.from) /\ req.from \notin Tables
    \/ DrizzlePosted /\ ~Falsy(req.table) /\ req.table \notin Tables

\* C13: a Drizzle GET whose from, or a Drizzle POST whose table, names a
\* table that is not in the schema is answered 400: the handler returns a
\* response, it does not throw, and nothing is sent to the store.
C13_UnknownTableRejected ==
    UnknownTable => (resp.status = 400 /\ ops = <<>>)

\* the select parameter is absent or holds no field name
EmptyProjection(select) == \A i \in DOMAIN select : select[i] = ""

\* C14: a GET (either adapter) whose select is absent or names no field,
\* or whose from is absent or empty, is answered 400 and nothing is sent
\* to the store.
C14_MissingSelectOrFromRejected ==
    (req.method = "GET" /\ (EmptyProjection(req.select) \/ Falsy(req.from)))
        => (resp.status = 400 /\ ops = <<>>)

\* a parameter that is present and is not the digits of a non-negative integer
BadNumber(text) == text # NoText /\ ~ValidNumber(text)

\* C15: a Drizzle GET on a table of the schema whose limit or offset is
\* present and does not denote a non-negative integer (negative, not a
\* number, fractional, digits followed by other characters) is answered
\* 400 and no query is executed.
C15_PaginationValidated ==
    (DrizzleGotTable /\ (BadNumber(req.limit) \/ BadNumber(req.offset)))
        => (resp.status = 400 /\ ops = <<>>)

\* a Drizzle GET of known columns with the id, without order or paging,
\* that the store did not fail
PlainlySelected ==
    /\ DrizzleGotTable
    /\ ~raised
    /\ \A k \in DOMAIN req.select : req.select[k] \in Columns
    /\ \E k \in DOMAIN req.select : req.select[k] = "id"
    /\ FalsyParam(req.orderBy)
    /\ req.limit = NoText /\ req.offset = NoText

\* the where parameter is {"AND": [t1, ..., tn]}, n > 0, every ti a filter tree
AndListed(p) ==
    /\ p.k = "json"
    /\ p.j.t = "obj"
    /\ Len(p.j.e) = 1
    /\ p.j.e[1][1] = "AND"
    /\ p.j.e[1][2].t = "arr"
    /\ p.j.e[1][2].e # <<>>
    /\ \A n \in DOMAIN p.j.e[1][2].e : IsFilterTree(p.j.e[1][2].e[n][2])

\* C16: a where clause whose AND holds a list of filter nodes selects the
\* rows on which every listed node is true, as the same conditions written
\* in one nested object do.
C16_AndListIsConjunction ==
    (PlainlySelected /\ AndListed(req.where))
        => /\ resp.status = 200
           /\ Ids(resp.rows) =
                {pre[i].id : i \in {n \in DOMAIN pre :
                    \A m \in DOMAIN req.where.j.e[1][2].e :
                        Interpret(req.where.j.e[1][2].e[m][2], pre[n])}}

\* some OR of the tree, at any depth, has an empty operand list
RECURSIVE HasEmptyOr(_)
HasEmptyOr(j) ==
    /\ j.t = "obj"
    /\ \E i \in DOMAIN j.e :
          CASE j.e[i][1] = "OR" ->
                  /\ j.e[i][2].t = "arr"
                  /\ \/ j.e[i][2].e = <<>>
                     \/ \E n \in DOMAIN j.e[i][2].e : HasEmptyOr(j.e[i][2].e[n][2])
            [] j.e[i][1] \in {"AND", "NOT"} -> HasEmptyOr(j.e[i][2])
            [] OTHER -> FALSE

\* C17: a Drizzle GET on a table of the schema whose where tree contains
\* an OR with no operands is answered 400 and the query is not executed;
\* it is not served as a query without filter.
C17_EmptyOrRejected ==
    (DrizzleGotTable /\ req.where.k = "json" /\ Shaped(req.where.j)
        /\ HasEmptyOr(req.where.j))
        => (resp.status = 400 /\ ops = <<>>)

(***************************************************************************)
(* The client helpers.  A text is the list of its tokens: a field name, a  *)
(* digit or a punctuation mark each; the texts of the URL are built and    *)
(* read token by token.                                                    *)
(***************************************************************************)
\* String(n), n a non-negative integer
RECURSIVE NumberText(_)
NumberText(n) ==
    IF n < 10 THEN <<Digits[n + 1]>>
    ELSE NumberText(n \div 10) \o <<Digits[(n % 10) + 1]>>

\* JSON.stringify of a value; the members of an object or a list
RECURSIVE Stringify(_)
RECURSIVE StringifyAll(_, _)
Stringify(j) ==
    CASE j.t = "null" -> <<"null">>
      [] j.t = "num" -> NumberText(j.v)
      [] j.t = "str" -> <<"\"", j.s, "\"">>
      [] j.t = "obj" -> <<"{">> \o StringifyAll(j.e, TRUE) \o <<"}">>
      [] j.t = "arr" -> <<"[">> \o StringifyAll(j.e, FALSE) \o <<"]">>

StringifyAll(es, keyed) ==
    IF es = <<>> THEN <<>>
    ELSE (IF keyed THEN <<"\"", es[1][1], "\"", ":">> ELSE <<>>)
         \o Stringify(es[1][2])
         \o (IF Len(es) > 1 THEN <<",">> \o StringifyAll(Tail(es), keyed) ELSE <<>>)

\* JSON.parse: the value at the head of a text and the text after it
Failed == [ok |-> FALSE, j |-> JNull, rest |-> <<>>]
Parsed(j, rest) == [ok |-> TRUE, j |-> j, rest |-> rest]

RECURSIVE AfterDigits(_)
AfterDigits(t) == IF t # <<>> /\ IsDigit(Head(t)) THEN AfterDigits(Tail(t)) ELSE t

RECURSIVE ParseValue(_)
RECURSIVE ParseMembers(_, _)
RECURSIVE ParseElements(_, _)
ParseValue(t) ==
    IF t = <<>> THEN Failed
    ELSE CASE t[1] = "null" -> Parsed(JNull, Tail(t))
           [] IsDigit(t[1]) -> Parsed(JNum(DigitRun(t, 0)), AfterDigits(t))
           [] t[1] = "\"" ->
                 IF Len(t) >= 3 /\ t[3] = "\"" THEN Parsed(JStr(t[2]), SubSeq(t, 4, Len(t)))
                 ELSE Failed
           [] t[1] = "{" ->
                 IF Len(t) >= 2 /\ t[2] = "}" THEN Parsed(JObj(<<>>), SubSeq(t, 3, Len(t)))
                 ELSE ParseMembers(Tail(t), <<>>)
           [] t[1] = "[" ->
                 IF Len(t) >= 2 /\ t[2] = "]" THEN Parsed(JArr(<<>>), SubSeq(t, 3, Len(t)))
                 ELSE ParseElements(Tail(t), <<>>)
           [] OTHER -> Failed

ParseMembers(t, acc) ==
    IF Len(t) < 5 \/ t[1] # "\"" \/ t[3] # "\"" \/ t[4] # ":" THEN Failed
    ELSE LET v == ParseValue(SubSeq(t, 5, Len(t)))
             members == Append(acc, <<t[2], v.j>>)
         IN  IF ~v.ok \/ v.rest = <<>> THEN Failed
             ELSE IF v.rest[1] = "}" THEN Parsed(JObj(members), Tail(v.rest))
             ELSE IF v.rest[1] = "," THEN ParseMembers(Tail(v.rest), members)
             ELSE Failed

ParseElements(t, acc) ==
    LET v == ParseValue(t)
        elements == Append(acc, <<Digits[Len(acc) + 1], v.j>>)
    IN  IF ~v.ok \/ v.rest = <<>> THEN Failed
        ELSE IF v.rest[1] = "]" THEN Parsed(JArr(elements), Tail(v.rest))
        ELSE IF v.rest[1] = "," THEN ParseElements(Tail(v.rest), elements)
        ELSE Failed

\* a JSON parameter of the URL as the handlers read it
ParamOf(text) ==
    IF text = NoText THEN PAbsent
    ELSE LET v == ParseValue(text)
         IN  IF v.ok /\ v.rest = <<>> THEN PJson(v.j) ELSE PMalformed

\* names.join(','), and text.split(',')
RECURSIVE Join(_)
Join(names) ==
    IF names = <<>> THEN <<>>
    ELSE (IF names[1] = "" THEN <<>> ELSE <<names[1]>>)
         \o (IF Len(names) > 1 THEN <<",">> \o Join(Tail(names)) ELSE <<>>)

RECURSIVE Split(_, _)
Split(text, piece) ==
    IF text = <<>> THEN <<piece>>
    ELSE IF text[1] = "," THEN <<piece>> \o Split(Tail(text), "")
    ELSE Split(Tail(text), text[1])

(***************************************************************************)
(* createDatabaseQueryOptions(options).  helpers.ts holds two definitions: *)
(* one sends the order as parameter 'order', one as 'orderBy'.             *)
(*   options.select : [form, entries]; an array of names (the flags of its *)
(*     entries are unused) or a mapping name -> flag                       *)
(*   options.where, options.order : PAbsent (undefined) or PJson(object)   *)
(*   options.limit, options.offset : NoLimit (undefined) or a number       *)
(***************************************************************************)
ClientVariants == {"order", "orderBy"}

\* Object.entries(options.select).filter(([, value]) => value).map(([key]) => key)
\* the entries of an array are <<index, element>>, of a mapping <<name, flag>>
selectedColumns(select) ==
    LET entries == IF select.form = "array"
                   THEN [i \in DOMAIN select.entries |->
                           <<Digits[i], select.entries[i][1] # "">>]
                   ELSE select.entries
        kept == SelectSeq(entries, LAMBDA e : e[2])
    IN  [i \in DOMAIN kept |-> kept[i][1]]

\* if (options.limit): undefined and 0 are falsy
TruthyNumber(n) == n # NoLimit /\ n # 0

\* the parameters set on searchParams; NoText: the parameter is not set
searchParams(options, variant) ==
    [select |-> Join(selectedColumns(options.select)),
     from |-> options.from,
     where |-> IF options.where = PAbsent THEN NoText ELSE Stringify(options.where.j),
     order |-> IF variant = "order" /\ options.order # PAbsent
               THEN Stringify(options.order.j) ELSE NoText,
     orderBy |-> IF variant = "orderBy" /\ options.order # PAbsent
                 THEN Stringify(options.order.j) ELSE NoText,
     limit |-> IF TruthyNumber(options.limit) THEN NumberText(options.limit) ELSE NoText,
     offset |-> IF TruthyNumber(options.offset) THEN NumberText(options.offset) ELSE NoText]

\* queryKey: ['db', ...dependencies], every element a text
queryKey(options, variant) ==
    <<<<"db">>, <<options.from>>>>
    \o [i \in DOMAIN selectedColumns(options.select) |->
           <<selectedColumns(options.select)[i]>>]
    \o (IF options.where = PAbsent THEN <<>> ELSE <<Stringify(options.where.j)>>)
    \o (IF options.order = PAbsent THEN <<>> ELSE <<Stringify(options.order.j)>>)
    \o (IF TruthyNumber(options.limit) THEN <<NumberText(options.limit)>> ELSE <<>>)
    \o (IF TruthyNumber(options.offset) THEN <<NumberText(options.offset)>> ELSE <<>>)

\* the GET handler's reading of the URL (drizzle.ts lines 107-115)
ParseUrl(adapter, url) ==
    GetRequest(adapter, Split(url.select, ""), url.from, ParamOf(url.where),
               ParamOf(url.orderBy), url.limit, url.offset)

\* the options of the model
SelectArray(names) == [form |-> "array", entries |-> [i \in DOMAIN names |-> <<names[i], TRUE>>]]
SelectMapping(entries) == [form |-> "mapping", entries |-> entries]

QuerySelects ==
    {SelectArray(<<"id", "title">>),
     SelectArray(<<"title">>),
     SelectMapping(<< <<"id", TRUE>>, <<"title", TRUE>> >>),
     SelectMapping(<< <<"id", TRUE>>, <<"title", TRUE>>, <<"content", FALSE>> >>),
     SelectMapping(<< <<"title", TRUE>>, <<"content", TRUE>> >>),
     SelectMapping(<< <<"id", FALSE>>, <<"title", FALSE>> >>)}
QueryWheres ==
    {PAbsent, PJson(JObj(<<>>)), PJson(Node(Field("id", "eq", 1))),
     PJson(Node(<<"OR", JArr(<<Item(0, Node(Field("id", "eq", 1))),
                               Item(1, Node(Field("title", "eq", MaxVal)))>>)>>))}
QueryOrders ==
    {PAbsent, PJson(Node(<<"title", JStr("desc")>>)),
     PJson(JObj(<< <<"title", JStr("asc")>>, <<"id", JStr("desc")>> >>))}
QueryNumbers == {NoLimit} \cup Val

Queries ==
    [select : QuerySelects, from : Tables, where : QueryWheres, order : QueryOrders,
     limit : QueryNumbers, offset : {NoLimit, 0, 1}]

\* queryFn: the helper builds the URL, the Drizzle GET handler serves it
Fetch ==
    /\ req = NoRequest
    /\ client = NoClient
    /\ \E options \in Queries, variant \in ClientVariants, fail \in BOOLEAN :
          LET r == ParseUrl("drizzle", searchParams(options, variant))
          IN  /\ Run(r, DrizzleGET(r, fail))
              /\ client' = [NoClient EXCEPT !.variant = variant, !.query = options,
                                            !.url = searchParams(options, variant),
                                            !.key = queryKey(options, variant)]

(***************************************************************************)
(* Decoding the rows of a response.  A leaf is [t, text]: the JSON type of *)
(* the value and its characters; a decoded value is [t, text] with the     *)
(* JavaScript type it was given.                                           *)
(***************************************************************************)
Leaf(t, text) == [t |-> t, text |-> text]

\* value.trim(): blanks dropped at both ends
RECURSIVE DropBlanksAtEnd(_)
DropBlanksAtEnd(t) ==
    IF t # <<>> /\ t[Len(t)] = " " THEN DropBlanksAtEnd(SubSeq(t, 1, Len(t) - 1)) ELSE t
Trim(text) == DropBlanksAtEnd(SkipBlanks(text))

\* !isNaN(Number(value)): blank text is 0; otherwise an optional sign, then
\* digits with an optional fraction, or a fraction alone
NumberOk(text) ==
    LET t == Trim(text)
        u == IF t # <<>> /\ t[1] \in {"-", "+"} THEN Tail(t) ELSE t
        f == AfterDigits(u)
    IN  \/ t = <<>>
        \/ /\ u # <<>>
           /\ \/ f = <<>>
              \/ /\ f[1] = "."
                 /\ AfterDigits(Tail(f)) = <<>>
                 /\ Len(u) > Len(f) \/ Len(f) > 1

\* the digits at positions from..to of a text, as a number; -1 if not digits
Field2(text, from, to) ==
    IF Len(text) >= to /\ \A i \in from..to : IsDigit(text[i])
    THEN DigitRun(SubSeq(text, from, to), 0) ELSE 0 - 1

\* /^\d{4}-\d{2}-\d{2}/.test(value)
IsoLike(text) ==
    /\ Field2(text, 1, 4) >= 0 /\ Field2(text, 6, 7) >= 0 /\ Field2(text, 9, 10) >= 0
    /\ text[5] = "-" /\ text[8] = "-"

\* the date-time string format of ECMAScript: YYYY, YYYY-MM, YYYY-MM-DD,
\* the last one possibly followed by THH:mm:ssZ or THH:mm:ss.sssZ
IsoFormat(text) ==
    /\ Field2(text, 1, 4) >= 0
    /\ \/ Len(text) = 4
       \/ /\ Len(text) >= 7 /\ text[5] = "-" /\ Field2(text, 6, 7) \in 1..12
          /\ \/ Len(text) = 7
             \/ /\ Len(text) >= 10 /\ text[8] = "-" /\ Field2(text, 9, 10) \in 1..31
                /\ \/ Len(text) = 10
                   \/ /\ Len(text) \in {20, 24}
                      /\ text[11] = "T" /\ text[14] = ":" /\ text[17] = ":"
                      /\ text[Len(text)] = "Z"
                      /\ Field2(text, 12, 13) \in 0..23
                      /\ Field2(text, 15, 16) \in 0..59
                      /\ Field2(text, 18, 19) \in 0..59
                      /\ Len(text) = 24 => text[20] = "." /\ Field2(text, 21, 23) >= 0

\* !isNaN(Date.parse(value)).  A text outside the format is read by rules
\* of the engine's own: with `legacy`, a text that holds a digit is a date
DateOk(text, legacy) ==
    \/ IsoFormat(text)
    \/ legacy /\ \E i \in DOMAIN text : IsDigit(text[i])

\* parseJson without the date rule
parseJsonNoDates(leaf, legacy) ==
    IF leaf.t # "string" THEN leaf
    ELSE IF leaf.text = <<"t", "r", "u", "e">> THEN Leaf("boolean", leaf.text)
    ELSE IF leaf.text = <<"f", "a", "l", "s", "e">> THEN Leaf("boolean", leaf.text)
    ELSE IF NumberOk(leaf.text) THEN Leaf("number", leaf.text)
    ELSE Leaf("string", leaf.text)

\* parseJson (helpers.ts lines 266-290), on one leaf
parseJson(leaf, legacy) ==
    IF leaf.t # "string" THEN leaf
    ELSE IF leaf.text = <<"t", "r", "u", "e">> THEN Leaf("boolean", leaf.text)
    ELSE IF leaf.text = <<"f", "a", "l", "s", "e">> THEN Leaf("boolean", leaf.text)
    ELSE IF NumberOk(leaf.text) THEN Leaf("number", leaf.text)
    ELSE IF DateOk(leaf.text, legacy) /\ IsoLike(leaf.text) THEN Leaf("date", leaf.text)
    ELSE Leaf("string", leaf.text)

\* the row mapping inside queryFn (helpers.ts lines 60-71), on one leaf:
\* String(item[key] ?? '') is the characters of the value, '' for null
decodeInline(leaf, legacy) ==
    LET stringValue == IF leaf.t = "null" THEN <<>> ELSE leaf.text
    IN  IF DateOk(stringValue, legacy) THEN Leaf("date", stringValue)
        ELSE IF NumberOk(stringValue) /\ Trim(stringValue) # <<>>
        THEN Leaf("number", stringValue)
        ELSE Leaf("string", stringValue)

\* the leaves of the model
Leaves ==
    {Leaf("string", <<"t", "r", "u", "e">>),
     Leaf("string", <<"f", "a", "l", "s", "e">>),
     Leaf("string", <<"2", "0", "2", "4">>),
     Leaf("string", <<"7">>),
     Leaf("string", <<"-", "1", ".", "5">>),
     Leaf("string", <<".", "5">>),
     Leaf("string", <<"1", "2", "a">>),
     Leaf("string", <<>>),
     Leaf("string", <<" ">>),
     Leaf("string", <<"h", "i">>),
     Leaf("string", <<"2", "0", "2", "4", "-", "0", "1", "-", "1", "5">>),
     Leaf("string", <<"2", "0", "2", "4", "-", "0", "1", "-", "1", "5",
                      "T", "1", "0", ":", "3", "0", ":", "0", "0", "Z">>),
     Leaf("string", <<"2", "0", "2", "4", "-", "1", "3", "-", "4", "5">>),
     Leaf("string", <<"2", "0", "2", "4", "-", "0", "1", "-", "1", "5", "x">>),
     Leaf("number", <<"7">>),
     Leaf("number", <<"1", ".", "5">>),
     Leaf("boolean", <<"t", "r", "u", "e">>),
     Leaf("null", <<"n", "u", "l", "l">>)}

(***************************************************************************)
(* The values of a result row and their encoding by Response.json(result): *)
(* a number and a boolean are written as JSON literals, a Date as the      *)
(* string of toISOString(), YYYY-MM-DDTHH:mm:ss.sssZ.                      *)
(*   a number is [negative, whole, tenths]: the model's floats carry one   *)
(*   fraction digit                                                        *)
(***************************************************************************)
NumberValue(negative, whole, tenths) ==
    [t |-> "number", negative |-> negative, whole |-> whole, tenths |-> tenths]
BooleanValue(flag) == [t |-> "boolean", flag |-> flag]
DateValue(year, month, day, hours, minutes, seconds, ms) ==
    [t |-> "date", year |-> year, month |-> month, day |-> day,
     hours |-> hours, minutes |-> minutes, seconds |-> seconds, ms |-> ms]
OtherValue(text) == [t |-> "string", text |-> text]

\* n written with `width` digits
RECURSIVE Pad(_, _)
Pad(n, width) ==
    IF width = 0 THEN <<>> ELSE Pad(n \div 10, width - 1) \o <<Digits[(n % 10) + 1]>>

toISOString(v) ==
    Pad(v.year, 4) \o <<"-">> \o Pad(v.month, 2) \o <<"-">> \o Pad(v.day, 2) \o <<"T">>
    \o Pad(v.hours, 2) \o <<":">> \o Pad(v.minutes, 2) \o <<":">> \o Pad(v.seconds, 2)
    \o <<".">> \o Pad(v.ms, 3) \o <<"Z">>

\* the leaf that JSON.stringify writes and response.json() reads
Encode(v) ==
    CASE v.t = "number" ->
           Leaf("number", (IF v.negative THEN <<"-">> ELSE <<>>) \o NumberText(v.whole)
                          \o (IF v.tenths = 0 THEN <<>> ELSE <<".", Digits[v.tenths + 1]>>))
      [] v.t = "boolean" ->
           Leaf("boolean", IF v.flag THEN <<"t", "r", "u", "e">>
                           ELSE <<"f", "a", "l", "s", "e">>)
      [] v.t = "date" -> Leaf("string", toISOString(v))
      [] OTHER -> Leaf("string", v.text)

\* the value a decoded leaf is: Number(text), the flag, new Date(text)
ValueOf(decoded) ==
    CASE decoded.t = "number" ->
           LET t == Trim(decoded.text)
               negative == t # <<>> /\ t[1] = "-"
               u == IF t # <<>> /\ t[1] \in {"-", "+"} THEN Tail(t) ELSE t
               f == AfterDigits(u)
           IN  NumberValue(negative, DigitRun(u, 0),
                           IF Len(f) >= 2 THEN DigitValue(f[2]) ELSE 0)
      [] decoded.t = "boolean" -> BooleanValue(decoded.text = <<"t", "r", "u", "e">>)
      [] decoded.t = "date" /\ Len(decoded.text) = 24 ->
           DateValue(Field2(decoded.text, 1, 4), Field2(decoded.text, 6, 7),
                     Field2(decoded.text, 9, 10), Field2(decoded.text, 12, 13),
                     Field2(decoded.text, 15, 16), Field2(decoded.text, 18, 19),
                     Field2(decoded.text, 21, 23))
      [] OTHER -> OtherValue(decoded.text)

\* the values of the model's result rows
ServerValues ==
    {NumberValue(FALSE, 0, 0), NumberValue(FALSE, 7, 0), NumberValue(FALSE, 2024, 0),
     NumberValue(TRUE, 1, 5), NumberValue(FALSE, 0, 5), NumberValue(TRUE, 3, 0),
     BooleanValue(TRUE), BooleanValue(FALSE),
     DateValue(2024, 1, 15, 10, 30, 0, 0),
     DateValue(2024, 1, 15, 0, 0, 0, 0),
     DateValue(1999, 12, 31, 23, 59, 59, 999)}

\* one leaf of a response row is decoded by the queryFn of a variant
Decode ==
    /\ req = NoRequest
    /\ client = NoClient
    /\ \E leaf \in Leaves \cup {Encode(v) : v \in ServerValues}, variant \in ClientVariants, legacy \in BOOLEAN :
          client' = [NoClient EXCEPT
                        !.variant = variant, !.leaf = leaf,
                        !.decoded = IF variant = "orderBy" THEN parseJson(leaf, legacy)
                                    ELSE decodeInline(leaf, legacy)]
    /\ UNCHANGED <<store, nextId, pre, req, resp, ops, raised>>

\* the client's result is handed over and the run ends
Settle ==
    /\ req = NoRequest
    /\ client # NoClient
    /\ client' = NoClient
    /\ UNCHANGED <<store, nextId, pre, req, resp, ops, raised>>

NextClient ==
    \/ Fetch
    \/ Decode
    \/ Settle
    \/ Reply

SpecClient == InitGet /\ [][NextClient]_vars

\* the client built a query and the handler served it
Fetched == client.variant # "none" /\ client.query # NoQuery

\* the name list a projection stands for
Projection(select) ==
    IF select.form = "array" THEN [i \in DOMAIN select.entries |-> select.entries[i][1]]
    ELSE LET kept == SelectSeq(select.entries, LAMBDA e : e[2])
         IN  [i \in DOMAIN kept |-> kept[i][1]]

\* the number of the options and the number the handler reads are the same
SameNumber(n, text, absent) ==
    (IF n = NoLimit THEN absent ELSE n) = (IF text = NoText THEN absent ELSE ParseInt(text).n)

\* C18: the URL built from a query description, read by the GET handler,
\* yields the table, the projection, the filter, the order, the limit and
\* the offset of the description.
C18_UrlRoundTrip ==
    Fetched
        => /\ req.from = client.query.from
           /\ req.select = Projection(client.query.select)
           /\ req.where = client.query.where
           /\ req.orderBy = client.query.order
           /\ SameNumber(client.query.limit, req.limit, NoLimit)
           /\ SameNumber(client.query.offset, req.offset, 0)

\* C19: a projection given as the array ['id','title'], as the mapping
\* {id: true, title: true} or as {id: true, title: true, content: false}
\* gives the select parameter 'id,title' and one and the same queryKey,
\* with the elements 'id', 'title' after the table.
C19_ProjectionFormsAgree ==
    (Fetched /\ Projection(client.query.select) = <<"id", "title">>)
        => /\ client.url.select = <<"id", ",", "title">>
           /\ SubSeq(client.key, 1, 4) = <<<<"db">>, <<"posts">>, <<"id">>, <<"title">>>>
           /\ client.key =
                 queryKey([client.query EXCEPT
                              !.select = SelectMapping(<< <<"id", TRUE>>, <<"title", TRUE>> >>)],
                          client.variant)

\* the rules of decoding, on the characters of a string leaf
IsBooleanLiteral(text) == text \in {<<"t", "r", "u", "e">>, <<"f", "a", "l", "s", "e">>}
IsNumericLiteral(text) == Trim(text) # <<>> /\ NumberOk(text)
IsDateLiteral(text) == IsoLike(text) /\ IsoFormat(text)

\* C20: a string leaf is decoded by the first rule that matches, in the
\* order boolean literal, numeric literal, date-like literal; a string
\* that is numeric and parses as a date is decoded to a number.
C20_DecodingOrder ==
    (client.leaf.t = "string")
        => /\ IsBooleanLiteral(client.leaf.text) => client.decoded.t = "boolean"
           /\ (~IsBooleanLiteral(client.leaf.text) /\ IsNumericLiteral(client.leaf.text))
                 => client.decoded.t = "number"
           /\ (~IsBooleanLiteral(client.leaf.text) /\ ~IsNumericLiteral(client.leaf.text)
                 /\ IsDateLiteral(client.leaf.text))
                 => client.decoded.t = "date"

\* the queryFn that decodes with parseJson decoded the encoding of v
Decoded(v) == client.variant = "orderBy" /\ client.leaf = Encode(v)

\* C21: an integer, a float, a boolean or a date of a result row, encoded
\* in the JSON response and decoded by the queryFn that uses parseJson, is
\* a value of the same type and equal to the original.
C21_DecodeEncodeRoundTrip ==
    \A v \in ServerValues :
        Decoded(v) => client.decoded.t = v.t /\ ValueOf(client.decoded) = v

C21_Witness ==
    /\ Decoded(DateValue(1999, 12, 31, 23, 59, 59, 999))
    /\ client.decoded.t = "date"
    /\ ValueOf(client.decoded) = DateValue(1999, 12, 31, 23, 59, 59, 999)

\* C22: every record of a 200 response of a GET handler has exactly the
\* field names of the select list: no selected field is missing and no
\* other field of the table appears.
C22_RecordsMatchProjection ==
    (req.method = "GET" /\ resp.status = 200)
        => \A i \in DOMAIN resp.rows :
              DOMAIN resp.rows[i] = {req.select[k] : k \in DOMAIN req.select}

\* C22 happens: a GET that selects title alone returned a record
C22_Witness ==
    /\ req.method = "GET"
    /\ req.select = <<"title">>
    /\ resp.status = 200
    /\ resp.rows # <<>>
    /\ DOMAIN resp.rows[1] = {"title"}

\* the status a caller sees: a handler that throws is answered 500 by the
\* framework that hosts it
StatusSeen(status) == IF status = 0 THEN 500 ELSE status

\* the status the Drizzle handlers give to the request, over the same rows
\* and with the same store failure
DrizzleStatus ==
    LET r == [req EXCEPT !.adapter = "drizzle"]
    IN  IF req.method = "GET" THEN DrizzleGET(r, raised).status
        ELSE DrizzlePOST(r, raised).status

\* C23: the Prisma handlers answer every request with the status the
\* Drizzle handlers give it over the same store contents.  (Stated where
\* the Prisma run left the table as it was, so that both read one table.)
C23_PrismaAnswersAsDrizzle ==
    (req.adapter = "prisma" /\ store = pre)
        => StatusSeen(resp.status) = StatusSeen(DrizzleStatus)

\* a filter of one field condition that carries two operators or more
MultiOperator(j) ==
    /\ j.t = "obj" /\ Len(j.e) = 1
    /\ IsFieldCondition(j.e[1][1], j.e[1][2])
    /\ Len(j.e[1][2].e) >= 2

\* C24: when one field condition carries several operators, the rows
\* returned are those that satisfy every operator, not only the last one.
C24_OperatorsConjoined ==
    (Filtered /\ MultiOperator(req.where.j))
        => Ids(resp.rows) =
              {pre[i].id : i \in {n \in DOMAIN pre :
                  \A o \in DOMAIN req.where.j.e[1][2].e :
                      Holds(req.where.j.e[1][2].e[o][1], pre[n][req.where.j.e[1][1]],
                            req.where.j.e[1][2].e[o][2].v)}}

\* C24 happens: {id: {gt: 1, lte: 2}} on ids 1, 2, 3 returned the row 2;
\* row 1 satisfies the last operator alone, row 3 the first alone
C24_Witness ==
    /\ Filtered
    /\ req.where = PJson(Node(<<"id", JObj(<< <<"gt", JNum(1)>>, <<"lte", JNum(2)>> >>)>>))
    /\ Ids(pre) = {1, 2, 3}
    /\ Ids(resp.rows) = {2}

\* a Drizzle GET answered 200 whose order object names selected fields with
\* the directions 'asc' and 'desc', without filter or paging
Ordered ==
    /\ DrizzleGot
    /\ resp.status = 200
    /\ req.orderBy.k = "json" /\ req.orderBy.j.t = "obj"
    /\ \A i \in DOMAIN req.orderBy.j.e :
          req.orderBy.j.e[i][2] \in {JStr("asc"), JStr("desc")}
    /\ FalsyParam(req.where)
    /\ req.limit = NoText /\ req.offset = NoText

\* record a goes strictly before record b: they agree on the keys before
\* some entry of the order object and differ on that entry's key the way
\* its direction says
Precedes(a, b, es) ==
    \E k \in DOMAIN es :
        /\ \A n \in 1..(k - 1) : a[es[n][1]] = b[es[n][1]]
        /\ IF es[k][2] = JStr("asc") THEN a[es[k][1]] < b[es[k][1]]
           ELSE a[es[k][1]] > b[es[k][1]]

\* C25: the rows come back sorted by the first key of the order object,
\* ties broken by the second key, and so on, each key ascending for 'asc'
\* and descending for 'desc'; they are the rows of the table.
C25_OrderEntriesInOrder ==
    Ordered
        => /\ Len(resp.rows) = Len(pre)
           /\ \A n \in DOMAIN pre : \E i \in DOMAIN resp.rows :
                 resp.rows[i] = Project(pre[n], req.select)
           /\ \A i, j \in DOMAIN resp.rows :
                 i < j => ~Precedes(resp.rows[j], resp.rows[i], req.orderBy.j.e)

\* C25 happens: {title: 'asc', id: 'desc'} on the table of three rows gave
\* the ids 3, 2, 1: title first, the tie of rows 1 and 2 broken by id
C25_Witness ==
    /\ Ordered
    /\ req.orderBy = PJson(JObj(<< <<"title", JStr("asc")>>, <<"id", JStr("desc")>> >>))
    /\ Len(pre) = 3
    /\ [i \in DOMAIN resp.rows |-> resp.rows[i].id] = <<3, 2, 1>>

\* C26: decoding with parseJson gives a value for every leaf, and a string
\* leaf that is not a boolean literal, not a numeric literal and not
\* date-like (the empty string and plain text included) is returned as the
\* identical string.
C26_PlainStringsKept ==
    (client.variant = "orderBy" /\ client.leaf # NoValue)
        => /\ client.decoded.t \in {"string", "number", "boolean", "date", "null"}
           /\ (/\ client.leaf.t = "string"
               /\ ~IsBooleanLiteral(client.leaf.text)
               /\ ~IsNumericLiteral(client.leaf.text)
               /\ ~IsoLike(client.leaf.text))
                 => client.decoded = client.leaf

\* a Drizzle update or delete, answered 200, whose where object has two
\* top-level keys or more, each a field of the table with a plain value
SeveralKeys ==
    /\ DrizzlePosted
    /\ req.action \in {"update", "delete"}
    /\ req.table \in Tables
    /\ resp.status = 200
    /\ req.where.k = "json" /\ req.where.j.t = "obj"
    /\ Len(req.where.j.e) >= 2
    /\ \A i \in DOMAIN req.where.j.e :
          req.where.j.e[i][1] \in Columns /\ req.where.j.e[i][2].t = "num"

\* the row satisfies the equality for every key of the where object
EveryKey(row) ==
    \A i \in DOMAIN req.where.j.e : row[req.where.j.e[i][1]] = req.where.j.e[i][2].v

\* C27: a Drizzle update or delete with a where object of two top-level
\* keys or more affects exactly the rows that satisfy the equality for
\* every key; a row matching only some of the keys is left as it was.
C27_EveryKeyRestricts ==
    SeveralKeys
        => IF req.action = "delete"
           THEN store = SelectSeq(pre, LAMBDA row : ~EveryKey(row))
           ELSE store = [i \in DOMAIN pre |->
                           IF EveryKey(pre[i]) THEN SetColumns(pre[i], req.data)
                           ELSE pre[i]]

\* C28: a query built by createDatabaseQueryOptions (the definition that
\* sends orderBy) with limit L, 0 included, and answered 200 by the GET
\* handler returns at most L records.
C28_LimitBoundsRecords ==
    (Fetched /\ client.variant = "orderBy" /\ client.query.limit # NoLimit
       /\ resp.status = 200)
        => Len(resp.rows) <= client.query.limit

\* C29: two option objects that build different request URLs never have
\* equal queryKey arrays: no other options of the model give the key of
\* the query just built unless they also give its URL.
C29_DistinctKeys ==
    Fetched
        => \A other \in Queries :
              searchParams(other, client.variant) # client.url
                 => queryKey(other, client.variant) # client.key

\* C30: a GET request never modifies the store: whatever its parameters
\* and its outcome, the step of a GET handler leaves every table with the
\* rows it held, so any sequence of GET requests does.
C30_GetLeavesStore == [][req'.method = "GET" => store' = store]_vars

\* C30 happens: a GET returned rows of a table and the table is as before
C30_Witness ==
    /\ req.method = "GET"
    /\ resp.status = 200
    /\ resp.rows # <<>>
    /\ pre # <<>>
    /\ store = pre

====
